---------------------------- MODULE Spec2Model ----------------------------
(***************************************************************************)
(* BAROQUE: the metric queue of Baroque.py (handle_argv, run_metrics, main) *)
(* and the formatters of Print_Metrics.py, as one run of main(argv).        *)
(*                                                                          *)
(* Text is a sequence of string tokens: a Python string is the sequence of  *)
(* the pieces str.format() puts together, "" is << >>, and + is \o.         *)
(***************************************************************************)
EXTENDS Integers, Sequences, FiniteSets, TLC

\* Longest argument list main() is started with.
MaxArgs == 2

(***************************************************************************)
(* Values                                                                   *)
(***************************************************************************)
\* Python's None where a string may stand (a preference, a basis gate set).
None == "<None>"

\* A Python string as text: "" is the empty text.
Str(s) == IF s = "" THEN << >> ELSE <<s>>

\* str() of a string-or-None value.
StrOf(s) == IF s = None THEN <<"None">> ELSE Str(s)

\* str() of an integer.
StrInt(n) == <<ToString(n)>>

RECURSIVE Gcd(_, _)
Gcd(a, b) == IF b = 0 THEN a ELSE Gcd(b, a % b)

\* str() of the float n/d, d > 0: one token per value (the reduced fraction).
StrRatio(n, d) ==
    LET g == Gcd(n, d) IN <<"float", ToString(n \div g), "/", ToString(d \div g)>>

\* BAROQUE_Common_Constants.valid_gate_strings
valid_gate_strings == {"cx", "sx", "id", "rz", "x", "reset", "measure"}

\* The basis gate sets a depth is measured in (None: the circuit's own gates).
BasisSets == {None, "u3cx"}

\* The value of an unbound circuit Reference (Reference(None)).
NoneCircuit == [isNone |-> TRUE, ops |-> << >>, depth |-> [b \in BasisSets |-> 0]]

\* What qasm3.load yields for each circuit file at hand.
CircuitFiles == {"a.qasm", "b.qasm", "e.qasm"}

LoadCircuit(file) ==
    CASE file = "a.qasm" ->
           [isNone |-> FALSE, ops |-> <<"x", "cx", "cx", "measure">>,
            depth |-> [b \in BasisSets |-> IF b = None THEN 3 ELSE 5]]
      [] file = "b.qasm" ->
           [isNone |-> FALSE, ops |-> <<"cx", "cx", "cx", "measure">>,
            depth |-> [b \in BasisSets |-> IF b = None THEN 4 ELSE 4]]
      [] OTHER ->
           [isNone |-> FALSE, ops |-> << >>,
            depth |-> [b \in BasisSets |-> 0]]

\* class Reference: a value and a display name. obj tells a Reference object
\* from Python's None passed in its place.
Reference(val, name) == [obj |-> "Reference", val |-> val, name |-> name]

(***************************************************************************)
(* BAROQUE_Metrics: the metric functions (not among the sources; from       *)
(* section 4.1 of the specification). A result is [exc, val]: exc is the    *)
(* exception raised ("none": val is the value returned).                    *)
(***************************************************************************)
Returned(v) == [exc |-> "none", val |-> v]
Raised(e) == [exc |-> e, val |-> 0]

RECURSIVE CountOps(_, _)
CountOps(ops, gate) ==
    IF ops = << >> THEN 0
    ELSE (IF Head(ops) = gate THEN 1 ELSE 0) + CountOps(Tail(ops), gate)

\* countGate(circuit, gate): occurrences of gate. None has no operations to
\* read: the attribute access raises.
metricCountGate(circuit, gate) ==
    IF circuit.isNone THEN Raised("AttributeError")
    ELSE Returned(CountOps(circuit.ops, gate))

\* diffGate: compare minus input.
metricDiffGate(circuit_a, circuit_b, gate) ==
    IF circuit_a.isNone \/ circuit_b.isNone THEN Raised("AttributeError")
    ELSE Returned(CountOps(circuit_b.ops, gate) - CountOps(circuit_a.ops, gate))

\* ratioGate: compare over input; val is <<numerator, denominator>>.
metricRatioGate(circuit_a, circuit_b, gate) ==
    IF circuit_a.isNone \/ circuit_b.isNone THEN Raised("AttributeError")
    ELSE IF CountOps(circuit_a.ops, gate) = 0 THEN Raised("ZeroDivisionError")
    ELSE Returned(<<CountOps(circuit_b.ops, gate), CountOps(circuit_a.ops, gate)>>)

metricCircuitDepth(circuit, basis) ==
    IF circuit.isNone THEN Raised("AttributeError")
    ELSE Returned(circuit.depth[basis])

metricDiffDepth(circuit_a, circuit_b, basis_a, basis_b) ==
    IF circuit_a.isNone \/ circuit_b.isNone THEN Raised("AttributeError")
    ELSE Returned(circuit_b.depth[basis_b] - circuit_a.depth[basis_a])

metricRatioDepth(circuit_a, circuit_b, basis_a, basis_b) ==
    IF circuit_a.isNone \/ circuit_b.isNone THEN Raised("AttributeError")
    ELSE IF circuit_a.depth[basis_a] = 0 THEN Raised("ZeroDivisionError")
    ELSE Returned(<<circuit_b.depth[basis_b], circuit_a.depth[basis_a]>>)

(***************************************************************************)
(* Print_Metrics.py: the formatters. A formatter's outcome is               *)
(* [text, calls, exc]: the string returned, the BAROQUE_Metrics functions   *)
(* called in order, and the exception that left it ("none": it returned).   *)
(***************************************************************************)
METRIC_OUT(metricDesc, gateName, resultNote, result) ==
    <<"\nMetric:\t">> \o metricDesc \o <<"\nGate:\t">> \o gateName
        \o <<"\nResult Note:\t">> \o resultNote \o <<"\nResult:\t">> \o result
        \o <<"\n">>

\* The error format without the line break it starts with.
METRIC_ERROR_NoLineBreak(metricName, errorNote) ==
    <<"ERROR - ", metricName, ": ", errorNote, "\n">>

METRIC_ERROR(metricName, errorNote) ==
    <<"\nERROR - ", metricName, ": ", errorNote, "\n">>

FmtReturn(text, calls) == [text |-> text, calls |-> calls, exc |-> "none"]
FmtRaise(exc, calls) == [text |-> << >>, calls |-> calls, exc |-> exc]

Call(fn, result) == [fn |-> fn, exc |-> result.exc]

\* The calls made, in order, up to the first that raises.
RECURSIVE RunCalls(_)
RunCalls(steps) ==
    IF steps = << >> THEN [calls |-> << >>, exc |-> "none"]
    ELSE IF Head(steps).exc # "none"
         THEN [calls |-> <<Head(steps).fn>>, exc |-> Head(steps).exc]
         ELSE LET rest == RunCalls(Tail(steps))
              IN [calls |-> <<Head(steps).fn>> \o rest.calls, exc |-> rest.exc]

\* basis_gates if basis_gates is not ("" or None) else "Default Gates"
BasisLabel(basis) == IF basis # None THEN StrOf(basis) ELSE <<"Default Gates">>

displayCount(circuit, gate_string) == metricCountGate(circuit.val, gate_string)

displayDepth(circuit, basis_gates) == metricCircuitDepth(circuit.val, basis_gates)

printMetricDiffGate(circuit_a, circuit_b, gate_string) ==
    IF gate_string \notin valid_gate_strings
    THEN FmtReturn(METRIC_ERROR("metricDiffGate", "Invalid gate string chosen."), << >>)
    ELSE IF circuit_b.obj = "None"
    THEN FmtReturn(METRIC_ERROR("metricDiffGate", "Compare circuit must be defined."), << >>)
    ELSE
      LET result == metricDiffGate(circuit_a.val, circuit_b.val, gate_string)
          compCnt == displayCount(circuit_b, gate_string)
          impCnt == displayCount(circuit_a, gate_string)
          run == RunCalls(<<Call("metricDiffGate", result),
                            Call("metricCountGate", compCnt),
                            Call("metricCountGate", impCnt)>>)
          resultNote == <<"(">> \o Str(circuit_b.name) \o <<") ">> \o StrInt(compCnt.val)
                          \o <<" - (">> \o Str(circuit_a.name) \o <<") ">>
                          \o StrInt(impCnt.val)
      IN IF run.exc # "none" THEN FmtRaise(run.exc, run.calls)
         ELSE FmtReturn(METRIC_OUT(<<"Difference in Gate Occurrences">>,
                                   Str(gate_string), resultNote, StrInt(result.val)),
                        run.calls)

\* The count blocks with the compare circuit's block put first.
printMetricCountGate_CompareFirst(circuit_a, circuit_b, gate_string) ==
    IF gate_string \notin valid_gate_strings
    THEN FmtReturn(METRIC_ERROR("metricCountGate", "Invalid gate string chosen."), << >>)
    ELSE
      LET result_for_a == metricCountGate(circuit_a.val, gate_string)
          result_for_b == metricCountGate(circuit_b.val, gate_string)
          out_a == METRIC_OUT(<<"Count of Gate Occurrences">>, Str(gate_string),
                              Str(circuit_a.name), StrInt(result_for_a.val))
          out_b == METRIC_OUT(<<"Count of Gate Occurrences">>, Str(gate_string),
                              Str(circuit_b.name), StrInt(result_for_b.val))
      IN IF result_for_a.exc # "none" THEN FmtRaise(result_for_a.exc, <<"metricCountGate">>)
         ELSE IF circuit_b.val.isNone THEN FmtReturn(out_a, <<"metricCountGate">>)
         ELSE FmtReturn(out_b \o out_a, <<"metricCountGate", "metricCountGate">>)

printMetricCountGate(circuit_a, circuit_b, gate_string) ==
    IF gate_string \notin valid_gate_strings
    THEN FmtReturn(METRIC_ERROR("metricCountGate", "Invalid gate string chosen."), << >>)
    ELSE
      LET result_for_a == metricCountGate(circuit_a.val, gate_string)
          b_is_none == circuit_b.val.isNone
          result_for_b == metricCountGate(circuit_b.val, gate_string)
          run == RunCalls(<<Call("metricCountGate", result_for_a)>>
                          \o (IF b_is_none THEN << >>
                              ELSE <<Call("metricCountGate", result_for_b)>>))
          out_a == METRIC_OUT(<<"Count of Gate Occurrences">>, Str(gate_string),
                              Str(circuit_a.name), StrInt(result_for_a.val))
          out_b == METRIC_OUT(<<"Count of Gate Occurrences">>, Str(gate_string),
                              Str(circuit_b.name), StrInt(result_for_b.val))
      IN IF run.exc # "none" THEN FmtRaise(run.exc, run.calls)
         ELSE FmtReturn(out_a \o (IF b_is_none THEN << >> ELSE out_b), run.calls)

printMetricRatioGate(circuit_a, circuit_b, gate_string) ==
    IF gate_string \notin valid_gate_strings
    THEN FmtReturn(METRIC_ERROR("metricRatioGate", "Invalid gate string chosen."), << >>)
    ELSE IF circuit_b.obj = "None"
    THEN FmtReturn(METRIC_ERROR("metricRatioGate", "Compare circuit must be defined."), << >>)
    ELSE
      LET result == metricRatioGate(circuit_a.val, circuit_b.val, gate_string)
          compCnt == displayCount(circuit_b, gate_string)
          impCnt == displayCount(circuit_a, gate_string)
          run == RunCalls(<<Call("metricRatioGate", result),
                            Call("metricCountGate", compCnt),
                            Call("metricCountGate", impCnt)>>)
          resultNote == <<"(">> \o Str(circuit_b.name) \o <<") ">> \o StrInt(compCnt.val)
                          \o <<" / (">> \o Str(circuit_a.name) \o <<") ">>
                          \o StrInt(impCnt.val)
      IN IF run.exc # "none" THEN FmtRaise(run.exc, run.calls)
         ELSE FmtReturn(METRIC_OUT(<<"Ratio of Gate Occurrences">>, Str(gate_string),
                                   resultNote, StrRatio(result.val[1], result.val[2])),
                        run.calls)

printMetricDiffDepth(circuit_a, circuit_b, basis_gates_a, basis_gates_b) ==
    IF circuit_b.obj = "None"
    THEN FmtReturn(METRIC_ERROR("metricDiffDepth", "Compare circuit must be defined."), << >>)
    ELSE
      LET result == metricDiffDepth(circuit_a.val, circuit_b.val, None, None)
          compCnt == displayDepth(circuit_b, basis_gates_b)
          impCnt == displayDepth(circuit_a, basis_gates_a)
          run == RunCalls(<<Call("metricDiffDepth", result),
                            Call("metricCircuitDepth", compCnt),
                            Call("metricCircuitDepth", impCnt)>>)
          resultNote == <<"(">> \o Str(circuit_b.name) \o <<" in ">>
                          \o BasisLabel(basis_gates_b) \o <<") ">> \o StrInt(compCnt.val)
                          \o <<" - (">> \o Str(circuit_a.name) \o <<" in ">>
                          \o BasisLabel(basis_gates_a) \o <<") ">> \o StrInt(impCnt.val)
      IN IF run.exc # "none" THEN FmtRaise(run.exc, run.calls)
         ELSE FmtReturn(METRIC_OUT(<<"Difference in Circuit Depth">>, << >>,
                                   resultNote, StrInt(result.val)),
                        run.calls)

printMetricCircuitDepth(circuit_a, circuit_b, basis_gates_a, basis_gates_b) ==
    LET result_for_a == metricCircuitDepth(circuit_a.val, basis_gates_a)
        b_is_none == circuit_b.val.isNone
        result_for_b == metricCircuitDepth(circuit_b.val, basis_gates_b)
        run == RunCalls(<<Call("metricCircuitDepth", result_for_a)>>
                        \o (IF b_is_none THEN << >>
                            ELSE <<Call("metricCircuitDepth", result_for_b)>>))
        result_note_a == Str(circuit_a.name) \o <<" in ">> \o BasisLabel(basis_gates_a)
        result_note_b == Str(circuit_b.name) \o <<" in ">> \o BasisLabel(basis_gates_b)
        out_a == METRIC_OUT(<<"Circuit Depth">>, << >>, result_note_a,
                            StrInt(result_for_a.val))
        out_b == METRIC_OUT(<<"Circuit Depth">>, StrOf(basis_gates_b), result_note_b,
                            StrInt(result_for_b.val))
    IN IF run.exc # "none" THEN FmtRaise(run.exc, run.calls)
       ELSE FmtReturn(out_a \o (IF b_is_none THEN << >> ELSE out_b), run.calls)

printMetricRatioDepth(circuit_a, circuit_b, basis_gates_a, basis_gates_b) ==
    IF circuit_b.obj = "None"
    THEN FmtReturn(METRIC_ERROR("metricRatioGate", "Compare circuit must be defined."), << >>)
    ELSE
      LET result == metricRatioDepth(circuit_a.val, circuit_b.val,
                                     basis_gates_a, basis_gates_b)
          compCnt == displayDepth(circuit_b, basis_gates_b)
          impCnt == displayDepth(circuit_a, basis_gates_a)
          run == RunCalls(<<Call("metricRatioDepth", result),
                            Call("metricCircuitDepth", compCnt),
                            Call("metricCircuitDepth", impCnt)>>)
          resultNote == <<"(">> \o Str(circuit_b.name) \o <<" in ">>
                          \o BasisLabel(basis_gates_b) \o <<") ">> \o StrInt(compCnt.val)
                          \o <<" / (">> \o Str(circuit_a.name) \o <<" in ">>
                          \o BasisLabel(basis_gates_a) \o <<") ">> \o StrInt(impCnt.val)
      IN IF run.exc # "none" THEN FmtRaise(run.exc, run.calls)
         ELSE FmtReturn(METRIC_OUT(<<"Ratio of Circuit Depths">>, << >>, resultNote,
                                   StrRatio(result.val[1], result.val[2])),
                        run.calls)

\* The shot count printMetricRaw asks for.
RawShots == 1024

\* What out.get_counts() does: raises qiskit.QiskitError, or returns the counts
\* (an empty dictionary is falsy).
CountsOutcomes == {"QiskitError", "empty", "counts"}

\* rawResults(shots, circuit, noiseModel, backend): the opaque outcome, as str()
\* shows it.
metricRawResults(shots, circuit, noise_model, backend) ==
    Returned(<<"Result(shots=", ToString(shots), ",backend=">> \o Str(backend) \o <<")">>)

\* printMetricRaw with an error block for a Reference that holds None.
printMetricRaw_ErrorBlock(quantum_container, circuit, backend, get_counts) ==
    IF circuit.val.isNone \/ quantum_container.val.isNone
    THEN FmtReturn(METRIC_ERROR("metricRawResults", "Compare circuit must be defined."),
                   << >>)
    ELSE
      LET out == metricRawResults(RawShots, circuit.val,
                                  quantum_container.val.noise_model, backend.val)
          counts == IF get_counts = "counts" THEN <<"{counts}">> ELSE <<"None">>
      IN FmtReturn(<<"\n">> \o Str(circuit.name) \o <<" Raw Results\n">> \o out.val
                     \o <<"\nCounts:\n">> \o counts \o <<"\n">>,
                   <<"metricRawResults">>)

\* printMetricRaw without the except clause around get_counts().
printMetricRaw_Uncaught(quantum_container, circuit, backend, get_counts) ==
    IF circuit.val.isNone THEN FmtReturn(<< >>, << >>)
    ELSE IF quantum_container.val.isNone THEN FmtReturn(<< >>, << >>)
    ELSE
      LET out == metricRawResults(RawShots, circuit.val,
                                  quantum_container.val.noise_model, backend.val)
          counts == IF get_counts = "counts" THEN <<"{counts}">> ELSE <<"None">>
      IN IF get_counts = "QiskitError"
         THEN FmtRaise("QiskitError", <<"metricRawResults">>)
         ELSE FmtReturn(<<"\n">> \o Str(circuit.name) \o <<" Raw Results\n">> \o out.val
                          \o <<"\nCounts:\n">> \o counts \o <<"\n">>,
                        <<"metricRawResults">>)

printMetricRaw(quantum_container, circuit, backend, get_counts) ==
    IF circuit.val.isNone THEN FmtReturn(<< >>, << >>)
    ELSE IF quantum_container.val.isNone THEN FmtReturn(<< >>, << >>)
    ELSE
      LET out == metricRawResults(RawShots, circuit.val,
                                  quantum_container.val.noise_model, backend.val)
          counts == IF get_counts = "counts" THEN <<"{counts}">> ELSE <<"None">>
      IN FmtReturn(<<"\n">> \o Str(circuit.name) \o <<" Raw Results\n">> \o out.val
                     \o <<"\nCounts:\n">> \o counts \o <<"\n">>,
                   <<"metricRawResults">>)

(***************************************************************************)
(* The command line, the preferences file and the backend catalog           *)
(***************************************************************************)
\* The options getopt is told of (its short options, and its long options
\* without their "=").
GetoptOptions ==
    {"-i", "-c", "-o", "-b", "-r", "-h",
     "--input_file", "--output_file", "--compare_file", "--backend",
     "--backend_input", "--backend_compare", "--routing", "--routing_input",
     "--routing_compare", "--set_API_key", "--set_default_input_file",
     "--set_default_output_file", "--set_default_backend_input",
     "--set_default_backend_compare", "--set_default_routing_input",
     "--set_default_routing_compare", "--reset_all", "--show_defaults",
     "--metricCountGate", "--metricRatioGate", "--metricDiffGate",
     "--metricDiffDepth", "--metricRatioDepth", "--metricCircuitDepth",
     "--metricRaw", "--available_backends", "--help"}

\* The options that ask for a metric.
MetricOptions ==
    {"--metricCountGate", "--metricDiffGate", "--metricRatioGate", "--metricDiffDepth",
     "--metricCircuitDepth", "--metricRatioDepth", "--metricRaw"}

\* An argument that does not start with "-": getopt stops reading there.
Words == {"stray"}

\* The gate strings given on the command line: a gate of the circuits, a valid
\* gate no circuit at hand holds, and an unknown one.
GateArgs == {"cx", "id", "zz"}

Arg(opt, arg) == [opt |-> opt, arg |-> arg]

\* The arguments main() is started with, each option already joined with its
\* value.
ArgItems ==
    {Arg(o, g) : o \in {"--metricCountGate", "--metricDiffGate", "--metricRatioGate"},
                 g \in GateArgs}
    \cup {Arg(o, "") : o \in {"--metricDiffDepth", "--metricCircuitDepth",
                               "--metricRatioDepth", "--metricRaw",
                               "--available_backends", "--bogus", "stray"}}
    \cup {Arg("-i", "e.qasm"), Arg("-b", "sim_x"), Arg("--backend_compare", "SIM_A")}

ArgLists == UNION {[1..n -> ArgItems] : n \in 0..MaxArgs}

\* preferences/user_pref.json as main() finds it.
UserPrefs ==
    [API_KEY : {"", "key"},
     DEFAULT_INPUT_FILE : {"", "a.qasm"},
     DEFAULT_COMPARE_FILE : {"", "b.qasm"},
     DEFAULT_OUTPUT_FILE : {"", "out.txt"},
     DEFAULT_BACKEND_INPUT : {"", "sim_a"},
     DEFAULT_BACKEND_COMPARE : {"", "sim_b"}]

\* provider.backends() of the account, by name.
IbmqCatalogs == {<<"sim_a", "sim_b">>, <<"sim_b">>}

AerMethods == <<"automatic", "statevector">>

LegacyBackends == <<"qasm_simulator">>

\* getopt.getopt(argv, ...): the options up to the first word; ok is FALSE
\* when an option it was not told of comes before that (GetoptError).
RECURSIVE getopt(_)
getopt(args) ==
    IF args = << >> THEN [ok |-> TRUE, opts |-> << >>]
    ELSE IF Head(args).opt \in Words THEN [ok |-> TRUE, opts |-> << >>]
    ELSE IF Head(args).opt \notin GetoptOptions THEN [ok |-> FALSE, opts |-> << >>]
    ELSE LET rest == getopt(Tail(args))
         IN [ok |-> rest.ok, opts |-> IF rest.ok THEN <<Head(args)>> \o rest.opts ELSE << >>]

\* The requests one option puts on the queue: (function, args), the args being
\* the Reference objects by name and the option's value.
Request(fn, args) == [fn |-> fn, args |-> args]

\* --metricRaw putting the input side only.
Puts_RawOnce(opt, arg) ==
    CASE opt = "--metricCountGate" ->
           <<Request("printMetricCountGate", <<"_input_circuit", "_compare_circuit", arg>>)>>
      [] opt = "--metricDiffGate" ->
           <<Request("printMetricDiffGate", <<"_input_circuit", "_compare_circuit", arg>>)>>
      [] opt = "--metricRatioGate" ->
           <<Request("printMetricRatioGate", <<"_input_circuit", "_compare_circuit", arg>>)>>
      [] opt = "--metricDiffDepth" ->
           <<Request("printMetricDiffDepth", <<"_input_circuit", "_compare_circuit">>)>>
      [] opt = "--metricCircuitDepth" ->
           <<Request("printMetricCircuitDepth", <<"_input_circuit", "_compare_circuit">>)>>
      [] opt = "--metricRatioDepth" ->
           <<Request("printMetricRatioDepth", <<"_input_circuit", "_compare_circuit">>)>>
      [] opt = "--metricRaw" ->
           <<Request("printMetricRaw",
                     <<"_quantum_container_input", "_input_circuit", "_backend_input">>)>>
      [] OTHER -> << >>

Puts(opt, arg) ==
    CASE opt = "--metricCountGate" ->
           <<Request("printMetricCountGate", <<"_input_circuit", "_compare_circuit", arg>>)>>
      [] opt = "--metricDiffGate" ->
           <<Request("printMetricDiffGate", <<"_input_circuit", "_compare_circuit", arg>>)>>
      [] opt = "--metricRatioGate" ->
           <<Request("printMetricRatioGate", <<"_input_circuit", "_compare_circuit", arg>>)>>
      [] opt = "--metricDiffDepth" ->
           <<Request("printMetricDiffDepth", <<"_input_circuit", "_compare_circuit">>)>>
      [] opt = "--metricCircuitDepth" ->
           <<Request("printMetricCircuitDepth", <<"_input_circuit", "_compare_circuit">>)>>
      [] opt = "--metricRatioDepth" ->
           <<Request("printMetricRatioDepth", <<"_input_circuit", "_compare_circuit">>)>>
      [] opt = "--metricRaw" ->
           <<Request("printMetricRaw",
                     <<"_quantum_container_input", "_input_circuit", "_backend_input">>),
             Request("printMetricRaw",
                     <<"_quantum_container_compare", "_compare_circuit", "_backend_compare">>)>>
      [] OTHER -> << >>

\* The settings one option writes.
Settings(c, opt, arg) ==
    CASE opt \in {"-i", "--input_file"} -> [c EXCEPT !.input_file = arg]
      [] opt \in {"-c", "--compare_file"} -> [c EXCEPT !.compare_file = arg]
      [] opt \in {"-o", "--output_file"} -> [c EXCEPT !.output_file = arg]
      [] opt \in {"-b", "--backend_input", "--backend"} ->
           [c EXCEPT !.backend_str_input = arg]
      [] opt = "--backend_compare" -> [c EXCEPT !.backend_str_compare = arg]
      [] opt = "--available_backends" -> [c EXCEPT !.show_backends = TRUE]
      [] OTHER -> c

\* no_valid_backend_check(available, backend1, backend2), its loop unrolled
\* over the list.
RECURSIVE BackendScan(_, _, _, _, _)
BackendScan(available, backend1, backend2, one_is_available, two_is_available) ==
    IF available = << >> THEN one_is_available /\ two_is_available
    ELSE BackendScan(Tail(available), backend1, backend2,
                     one_is_available \/ backend1 = Head(available),
                     two_is_available \/ backend2 = Head(available))

\* The check with a name that asks for nothing taken as unavailable.
no_valid_backend_check_EmptyUnavailable(available, backend1, backend2) ==
    BackendScan(available, backend1, backend2, FALSE, FALSE)

\* The check that never fails.
no_valid_backend_check_AlwaysTrue(available, backend1, backend2) == TRUE

no_valid_backend_check(available, backend1, backend2) ==
    BackendScan(available, backend1, backend2,
                ~(backend1 # None /\ backend1 # ""),
                ~(backend2 # None /\ backend2 # ""))

RECURSIVE TabLines(_)
TabLines(names) ==
    IF names = << >> THEN << >>
    ELSE <<(<<"\t">> \o Str(Head(names)))>> \o TabLines(Tail(names))

\* What show_available_backends prints, a print() a line.
show_available_backends(cat) ==
    <<(<<"Available IBMQ backends:">>)>> \o TabLines(cat.ibmq)
      \o <<(<<"Available AerSimulator Methods:">>)>> \o TabLines(cat.aer)
      \o <<(<<"Available Legacy Simulator Backends:">>)>> \o TabLines(cat.legacy)
      \o << << >> >>

\* IbmInterface.IbmqInterfaceContainer(provider, backend_str)
IbmqInterfaceContainer(backend_str) ==
    [isNone |-> FALSE, backend |-> backend_str, noise_model |-> "noise_model"]

NoneContainer == [isNone |-> TRUE, backend |-> None, noise_model |-> None]

(***************************************************************************)
(* State of one run of main(argv)                                           *)
(***************************************************************************)
VARIABLES
    argv,          \* the arguments of main
    user_pref,     \* the preferences file read at the start
    pc,            \* where main stands
    cfg,           \* the setting References: _ibmq_api_key, _input_file, ...
    refs,          \* the References the requests hold: circuits, containers, backends
    opts,          \* handle_argv: the options still to go through
    metric_queue,  \* the queue of (function, args)
    enqueued,      \* every request put on the queue, in order (history)
    compare_exists, cont_metrics,   \* main's locals
    catalog,       \* what the provider and Aer list
    backend_list,  \* main's local
    backend_check, \* "not run", "passed" or "failed"
    out,           \* run_metrics: the text so far
    log,           \* the formatter calls made: request, text, metric calls, exception
    results,       \* what run_metrics returned
    stdout,        \* what was printed, a print() an element
    outfile,       \* the output file: whether written, and its content
    exc            \* the exception that ended the run ("none": none so far)

vars == <<argv, user_pref, pc, cfg, refs, opts, metric_queue, enqueued, compare_exists,
          cont_metrics, catalog, backend_list, backend_check, out, log, results,
          stdout, outfile, exc>>

RefNames == {"_input_circuit", "_compare_circuit", "_quantum_container_input",
             "_quantum_container_compare", "_backend_input", "_backend_compare"}

\* The module's References as created: Reference(None).
InitialRefs ==
    [n \in RefNames |->
        CASE n \in {"_input_circuit", "_compare_circuit"} -> Reference(NoneCircuit, "")
          [] n \in {"_quantum_container_input", "_quantum_container_compare"} ->
               Reference(NoneContainer, "")
          [] OTHER -> Reference(None, "")]

Init ==
    /\ argv \in ArgLists
    /\ user_pref \in UserPrefs
    /\ pc = "start"
    /\ cfg = [api_key |-> None, input_file |-> None, compare_file |-> None,
              output_file |-> None, backend_str_input |-> None,
              backend_str_compare |-> None, show_backends |-> FALSE]
    /\ refs = InitialRefs
    /\ opts = << >>
    /\ metric_queue = << >>
    /\ enqueued = << >>
    /\ compare_exists = FALSE
    /\ cont_metrics = TRUE
    /\ catalog = [ibmq |-> << >>, aer |-> << >>, legacy |-> << >>]
    /\ backend_list = << >>
    /\ backend_check = "not run"
    /\ out = << >>
    /\ log = << >>
    /\ results = << >>
    /\ stdout = << >>
    /\ outfile = [written |-> FALSE, content |-> << >>]
    /\ exc = "none"

\* current_metric(*args): the formatter of a request on the References it holds.
InvokeOn(r, req, get_counts) ==
    LET a == req.args
    IN CASE req.fn = "printMetricCountGate" ->
              printMetricCountGate(r[a[1]], r[a[2]], a[3])
         [] req.fn = "printMetricDiffGate" ->
              printMetricDiffGate(r[a[1]], r[a[2]], a[3])
         [] req.fn = "printMetricRatioGate" ->
              printMetricRatioGate(r[a[1]], r[a[2]], a[3])
         [] req.fn = "printMetricDiffDepth" ->
              printMetricDiffDepth(r[a[1]], r[a[2]], None, None)
         [] req.fn = "printMetricCircuitDepth" ->
              printMetricCircuitDepth(r[a[1]], r[a[2]], None, None)
         [] req.fn = "printMetricRatioDepth" ->
              printMetricRatioDepth(r[a[1]], r[a[2]], None, None)
         [] OTHER ->
              printMetricRaw(r[a[1]], r[a[2]], r[a[3]], get_counts)

\* The call made on what the References held when the request was put.
Invoke_AtEnqueue(req, get_counts) == InvokeOn(InitialRefs, req, get_counts)

\* run_metrics' call of a request: the References are read now.
Invoke(req, get_counts) == InvokeOn(refs, req, get_counts)

\* main, to the call of handle_argv: the settings take the preferences.
LoadPrefs ==
    /\ pc = "start"
    /\ cfg' = [cfg EXCEPT !.api_key = user_pref.API_KEY,
                          !.input_file = user_pref.DEFAULT_INPUT_FILE,
                          !.compare_file = user_pref.DEFAULT_COMPARE_FILE,
                          !.output_file = user_pref.DEFAULT_OUTPUT_FILE,
                          !.backend_str_input = user_pref.DEFAULT_BACKEND_INPUT,
                          !.backend_str_compare = user_pref.DEFAULT_BACKEND_COMPARE]
    /\ metric_queue' = << >>
    /\ pc' = "getopt"
    /\ UNCHANGED <<argv, user_pref, refs, opts, enqueued, compare_exists, cont_metrics,
                   catalog, backend_list, backend_check, out, log, results, stdout,
                   outfile, exc>>

\* handle_argv's getopt. On GetoptError it prints and returns None, which main
\* cannot unpack into (metric_queue, user_pref): TypeError.
Getopt ==
    /\ pc = "getopt"
    /\ LET parsed == getopt(argv)
       IN IF parsed.ok
          THEN /\ opts' = parsed.opts
               /\ pc' = "opts"
               /\ UNCHANGED <<stdout, exc>>
          ELSE /\ stdout' = Append(stdout, <<"Error reading in getopt arguments.">>)
               /\ exc' = "TypeError"
               /\ pc' = "crashed"
               /\ UNCHANGED opts
    /\ UNCHANGED <<argv, user_pref, cfg, refs, metric_queue, enqueued, compare_exists,
                   cont_metrics, catalog, backend_list, backend_check, out, log,
                   results, outfile>>

\* handle_argv's loop, one option.
HandleOpt ==
    /\ pc = "opts"
    /\ opts # << >>
    /\ LET o == Head(opts)
       IN /\ cfg' = Settings(cfg, o.opt, o.arg)
          /\ metric_queue' = metric_queue \o Puts(o.opt, o.arg)
          /\ enqueued' = enqueued \o Puts(o.opt, o.arg)
    /\ opts' = Tail(opts)
    /\ UNCHANGED <<argv, user_pref, pc, refs, compare_exists, cont_metrics, catalog,
                   backend_list, backend_check, out, log, results, stdout, outfile, exc>>

\* cont_metrics with the backend name left unlooked at.
ContMetrics_InputOnly(c) == c.input_file # ""

\* main's cont_metrics: there is an input file and an input backend.
ContMetrics(c) == ~(c.input_file = "") /\ ~(c.backend_str_input = "")

\* handle_argv returns; main settles the compare backend and looks for the
\* input file, the backend and the API key.
CheckSettings ==
    /\ pc = "opts"
    /\ opts = << >>
    /\ LET copy == cfg.compare_file # "" /\ cfg.backend_str_compare = ""
           no_input == cfg.input_file = ""
           no_backend == cfg.backend_str_input = ""
           no_key == cfg.api_key = ""
       IN /\ compare_exists' = (cfg.compare_file # "")
          /\ cfg' = IF copy THEN [cfg EXCEPT !.backend_str_compare = cfg.backend_str_input]
                    ELSE cfg
          /\ cont_metrics' = ContMetrics(cfg)
          /\ stdout' = stdout
               \o (IF copy
                   THEN << <<"WARNING: You've specified a compare file but no compare backend. Using input backend... \n">> >>
                   ELSE << >>)
               \o (IF no_input THEN << <<"WARNING: No input file has been set.\n">> >>
                   ELSE << >>)
               \o (IF no_backend THEN << <<"WARNING: No backend has been set.\n">> >>
                   ELSE << >>)
               \o (IF no_key THEN << <<"ERROR: Your IBMQ API Key has not been set.\n">> >>
                   ELSE << >>)
          /\ pc' = IF no_key THEN "done" ELSE "ibm"
    /\ UNCHANGED <<argv, user_pref, refs, opts, metric_queue, enqueued, catalog,
                   backend_list, backend_check, out, log, results, outfile, exc>>

\* The provider is asked for its backends; they are shown if asked for; main
\* returns here when the input file or the backend is missing.
FetchBackends ==
    /\ pc = "ibm"
    /\ \E ibmq \in IbmqCatalogs :
         LET cat == [ibmq |-> ibmq, aer |-> AerMethods, legacy |-> LegacyBackends]
         IN /\ catalog' = cat
            /\ backend_list' = cat.ibmq \o cat.aer \o cat.legacy
            /\ stdout' = IF cfg.show_backends
                         THEN stdout \o show_available_backends(cat)
                         ELSE stdout
    /\ cfg' = [cfg EXCEPT !.show_backends = FALSE]
    /\ pc' = IF cont_metrics THEN "check" ELSE "done"
    /\ UNCHANGED <<argv, user_pref, refs, opts, metric_queue, enqueued, compare_exists,
                   cont_metrics, backend_check, out, log, results, outfile, exc>>

\* The backend check; on failure the backends are shown and main returns.
BackendCheck ==
    /\ pc = "check"
    /\ IF no_valid_backend_check(backend_list, cfg.backend_str_compare,
                                 cfg.backend_str_input)
       THEN /\ backend_check' = "passed"
            /\ pc' = "setup"
            /\ UNCHANGED stdout
       ELSE /\ backend_check' = "failed"
            /\ stdout' = Append(stdout,
                 <<"ERROR: One or both of your selected backends are not available on the active IBMQ API token.\n">>)
                 \o show_available_backends(catalog)
            /\ pc' = "done"
    /\ UNCHANGED <<argv, user_pref, cfg, refs, opts, metric_queue, enqueued,
                   compare_exists, cont_metrics, catalog, backend_list, out, log,
                   results, outfile, exc>>

\* The containers, the circuits and the backends are bound.
Setup ==
    /\ pc = "setup"
    /\ LET container_input == IbmqInterfaceContainer(cfg.backend_str_input)
           container_compare == IbmqInterfaceContainer(cfg.backend_str_compare)
       IN refs' = [refs EXCEPT
            !["_quantum_container_input"] = Reference(container_input, ""),
            !["_quantum_container_compare"] =
                IF compare_exists THEN Reference(container_compare, "") ELSE @,
            !["_input_circuit"] = Reference(LoadCircuit(cfg.input_file), cfg.input_file),
            !["_compare_circuit"] =
                IF cfg.compare_file # ""
                THEN Reference(LoadCircuit(cfg.compare_file), cfg.compare_file)
                ELSE Reference(NoneCircuit, ""),
            !["_backend_input"] = Reference(container_input.backend, ""),
            !["_backend_compare"] =
                IF compare_exists THEN Reference(container_compare.backend, "") ELSE @]
    /\ out' = << >>
    /\ pc' = "run"
    /\ UNCHANGED <<argv, user_pref, cfg, opts, metric_queue, enqueued, compare_exists,
                   cont_metrics, catalog, backend_list, backend_check, log, results,
                   stdout, outfile, exc>>

\* A get() from the back of the queue, and one that leaves the request on it.
QueueGet_Last(q) == [item |-> q[Len(q)], rest |-> SubSeq(q, 1, Len(q) - 1)]

QueueGet_Keep(q) == [item |-> Head(q), rest |-> q]

\* metric_queue.get(): the request at the front, and the queue without it.
QueueGet(q) == [item |-> Head(q), rest |-> Tail(q)]

\* out += current_metric(*args)
Accumulate(text, block) == text \o block

\* run_metrics' loop, one request: taken from the front and called. What the
\* call raises leaves run_metrics and main.
RunMetric ==
    /\ pc = "run"
    /\ metric_queue # << >>
    /\ LET got == QueueGet(metric_queue)
           req == got.item
       IN /\ \E get_counts \in (IF req.fn = "printMetricRaw" THEN CountsOutcomes
                                ELSE {"counts"}) :
               LET r == Invoke(req, get_counts)
               IN /\ log' = Append(log, [req |-> req, text |-> r.text,
                                         calls |-> r.calls, exc |-> r.exc,
                                         get_counts |-> IF req.fn = "printMetricRaw"
                                                           /\ r.calls # << >>
                                                        THEN get_counts
                                                        ELSE "not called"])
                  /\ IF r.exc = "none"
                     THEN /\ out' = Accumulate(out, r.text)
                          /\ UNCHANGED <<pc, exc>>
                     ELSE /\ exc' = r.exc
                          /\ pc' = "crashed"
                          /\ UNCHANGED out
          /\ metric_queue' = got.rest
    /\ UNCHANGED <<argv, user_pref, cfg, refs, opts, enqueued, compare_exists,
                   cont_metrics, catalog, backend_list, backend_check, results, stdout,
                   outfile>>

\* run_metrics returns its text.
ReturnResults ==
    /\ pc = "run"
    /\ metric_queue = << >>
    /\ results' = out
    /\ pc' = "output"
    /\ UNCHANGED <<argv, user_pref, cfg, refs, opts, metric_queue, enqueued,
                   compare_exists, cont_metrics, catalog, backend_list, backend_check,
                   out, log, stdout, outfile, exc>>

\* The report main puts together.
Report ==
    <<"Test Files: ">> \o Str(cfg.input_file) \o <<" ">> \o Str(cfg.compare_file)
      \o <<"\n", "Device: ">> \o Str(cfg.backend_str_input) \o <<"\n">> \o results

\* The except clause with the diagnostic and no report after it.
ConsoleFallback_DiagnosticOnly(out_string) ==
    << <<"Error opening specified output file. Printing to console...">> >>

\* except OSError: the two print() calls.
ConsoleFallback(out_string) ==
    << <<"Error opening specified output file. Printing to console...">>, out_string >>

\* The report goes to the output file, or to the console when none is set or
\* when it cannot be written.
Output ==
    /\ pc = "output"
    /\ IF cfg.output_file # ""
       THEN \E write_ok \in BOOLEAN :
              IF write_ok
              THEN /\ outfile' = [written |-> TRUE, content |-> Report]
                   /\ UNCHANGED stdout
              ELSE /\ stdout' = stdout \o ConsoleFallback(Report)
                   /\ UNCHANGED outfile
       ELSE /\ stdout' = Append(stdout, Report)
            /\ UNCHANGED outfile
    /\ pc' = "done"
    /\ UNCHANGED <<argv, user_pref, cfg, refs, opts, metric_queue, enqueued,
                   compare_exists, cont_metrics, catalog, backend_list, backend_check,
                   out, log, results, exc>>

Next ==
    \/ LoadPrefs
    \/ Getopt
    \/ HandleOpt
    \/ CheckSettings
    \/ FetchBackends
    \/ BackendCheck
    \/ Setup
    \/ RunMetric
    \/ ReturnResults
    \/ Output

Spec == Init /\ [][Next]_vars

(***************************************************************************)
(* Properties                                                               *)
(***************************************************************************)
\* The requests the formatter was called for, in the order of the calls.
LogReqs == [i \in 1..Len(log) |-> log[i].req]

\* The texts the calls so far returned, one after the other.
RECURSIVE ConcatTexts(_)
ConcatTexts(entries) ==
    IF entries = << >> THEN << >>
    ELSE Head(entries).text \o ConcatTexts(Tail(entries))

\* run_metrics has returned.
RunReturned == pc = "output" \/ (pc = "done" /\ backend_check = "passed")

\* C1: run_metrics calls the requests in the order they were put on the queue,
\* every block it is handed is what the request's formatter returns on the
\* References, and the text it builds, and returns, is those blocks one after
\* the other with nothing before, between or after them.
C1_FifoConcatenation ==
    /\ Len(log) <= Len(enqueued)
    /\ LogReqs = SubSeq(enqueued, 1, Len(log))
    /\ \A i \in 1..Len(log) :
         \E gc \in CountsOutcomes :
            /\ log[i].text = Invoke(enqueued[i], gc).text
            /\ log[i].exc = Invoke(enqueued[i], gc).exc
    /\ pc = "run" => out = ConcatTexts(log)
    /\ RunReturned => (results = ConcatTexts(log) /\ Len(log) = Len(enqueued))

\* Two different requests were drained, each with a block of its own.
C1_Witness ==
    /\ pc = "output"
    /\ Len(enqueued) = 2
    /\ enqueued[1].fn = "printMetricCircuitDepth"
    /\ enqueued[2].fn = "printMetricCountGate"
    /\ log[1].text # << >> /\ log[2].text # << >>
    /\ results = log[1].text \o log[2].text

\* C2: every step of run_metrics' loop shortens the queue (so the loop ends),
\* and when run_metrics returns the queue is empty and the calls made are the
\* requests put on the queue, each once, none twice, none left.
C2_DrainedOnce ==
    [][ /\ (pc = "run" /\ pc' = "run") => Len(metric_queue') < Len(metric_queue)
        /\ pc' = "output" => (metric_queue' = << >> /\ LogReqs' = enqueued') ]_vars

\* run_metrics returned after a queue of three requests.
C2_Witness ==
    /\ pc = "output"
    /\ Len(enqueued) = 3
    /\ metric_queue = << >>
    /\ Len(log) = 3

\* C3: no call of a request's formatter raises out of run_metrics: every
\* request of the queue is called and returns a text.
C3_FailureNeverAborts ==
    /\ \A i \in 1..Len(log) : log[i].exc = "none"
    /\ (pc \in {"crashed", "output", "done"} /\ log # << >>) => Len(log) = Len(enqueued)

\* The formatters of the metrics that need both circuits, and the name each
\* goes by in its messages.
TwoCircuitName(fn) ==
    CASE fn = "printMetricDiffGate" -> "metricDiffGate"
      [] fn = "printMetricRatioGate" -> "metricRatioGate"
      [] fn = "printMetricDiffDepth" -> "metricDiffDepth"
      [] OTHER -> "metricRatioDepth"

GateFormatters == {"printMetricCountGate", "printMetricDiffGate", "printMetricRatioGate"}

TwoCircuitFormatters == {"printMetricDiffGate", "printMetricRatioGate",
                         "printMetricDiffDepth", "printMetricRatioDepth"}

\* The gate string a request for a gate metric carries.
GateOf(req) == req.args[3]

\* The compare circuit Reference holds None.
CompareUnbound == refs["_compare_circuit"].val.isNone

\* C4: a two-circuit metric called while the compare circuit Reference holds
\* None (its gate string, if it has one, being valid) returns the block
\* "\nERROR - <metric>: Compare circuit must be defined.\n" and calls no
\* function of BAROQUE_Metrics.
C4_MissingCompareBlock ==
    \A i \in 1..Len(log) :
       ( /\ log[i].req.fn \in TwoCircuitFormatters
         /\ log[i].req.fn \in GateFormatters => GateOf(log[i].req) \in valid_gate_strings
         /\ CompareUnbound )
       => /\ log[i].exc = "none"
          /\ log[i].text = <<"\nERROR - ", TwoCircuitName(log[i].req.fn), ": ",
                             "Compare circuit must be defined.", "\n">>
          /\ log[i].calls = << >>

GateMetricName(fn) ==
    CASE fn = "printMetricCountGate" -> "metricCountGate"
      [] fn = "printMetricDiffGate" -> "metricDiffGate"
      [] OTHER -> "metricRatioGate"

\* C5: a gate metric called with a gate string that is not in
\* valid_gate_strings returns exactly
\* "\nERROR - <metricName>: Invalid gate string chosen.\n" and calls no function
\* of BAROQUE_Metrics, whether the compare circuit is bound or not.
C5_InvalidGateBlock ==
    \A i \in 1..Len(log) :
       (log[i].req.fn \in GateFormatters /\ GateOf(log[i].req) \notin valid_gate_strings)
       => /\ log[i].exc = "none"
          /\ log[i].text = <<"\nERROR - ", GateMetricName(log[i].req.fn), ": ",
                             "Invalid gate string chosen.", "\n">>
          /\ log[i].calls = << >>

\* With the compare circuit unbound, metricDiffGate and then another gate
\* metric were called with the unknown gate "zz".
C5_Witness ==
    /\ CompareUnbound
    /\ Len(log) = 2
    /\ log[1].req.fn = "printMetricDiffGate" /\ GateOf(log[1].req) = "zz"
    /\ log[2].req.fn \in {"printMetricCountGate", "printMetricRatioGate"}
    /\ GateOf(log[2].req) = "zz"
    /\ log[1].text # << >> /\ log[2].text # << >>

\* The denominator of a ratio request is zero: the input circuit's count of
\* the gate, or its depth.
ZeroDenominator(req) ==
    LET input == refs["_input_circuit"].val
    IN IF req.fn = "printMetricRatioGate" THEN CountOps(input.ops, GateOf(req)) = 0
       ELSE input.depth[None] = 0

\* C6: a ratio metric whose preconditions hold (valid gate, both circuits
\* bound) and whose denominator is zero returns an error block (it raises
\* nothing, and shows no result).
C6_DivisionByZeroBlock ==
    \A i \in 1..Len(log) :
       ( /\ log[i].req.fn \in {"printMetricRatioGate", "printMetricRatioDepth"}
         /\ log[i].req.fn \in GateFormatters => GateOf(log[i].req) \in valid_gate_strings
         /\ ~CompareUnbound
         /\ ZeroDenominator(log[i].req) )
       => /\ log[i].exc = "none"
          /\ log[i].text # << >>
          /\ log[i].text[1] = "\nERROR - "

\* handle_argv has gone through the options and is about to return the queue.
ArgvHandled == pc = "opts" /\ opts = << >>

\* The arguments getopt reads as options: those before the first word.
RECURSIVE BeforeWord(_)
BeforeWord(args) ==
    IF args = << >> \/ Head(args).opt \in Words THEN << >>
    ELSE <<Head(args)>> \o BeforeWord(Tail(args))

IsMetricOption(a) == a.opt \in MetricOptions

IsRaw(a) == a.opt = "--metricRaw"

MetricInstructions == SelectSeq(BeforeWord(argv), IsMetricOption)

\* The place on the queue of the (first) request of the k-th metric instruction.
PlaceOf(k) == k + Len(SelectSeq(SubSeq(MetricInstructions, 1, k - 1), IsRaw))

FormatterOf(opt) ==
    CASE opt = "--metricCountGate" -> "printMetricCountGate"
      [] opt = "--metricDiffGate" -> "printMetricDiffGate"
      [] opt = "--metricRatioGate" -> "printMetricRatioGate"
      [] opt = "--metricDiffDepth" -> "printMetricDiffDepth"
      [] opt = "--metricCircuitDepth" -> "printMetricCircuitDepth"
      [] opt = "--metricRatioDepth" -> "printMetricRatioDepth"
      [] OTHER -> "printMetricRaw"

\* C7 as stated: when handle_argv returns, the queue holds one request for
\* each metric instruction it read, so its length is their number.
C7_OneRequestEach ==
    ArgvHandled => Len(metric_queue) = Len(MetricInstructions)

\* C7 as amended: when handle_argv returns, the queue holds, in the order of
\* the metric instructions getopt read, one request for each (that metric's
\* formatter, with the instruction's gate string), but two for --metricRaw, the
\* input side then the compare side; its length is the number of metric
\* instructions plus the number of --metricRaw among them.
C7_RequestsPerInstruction ==
    ArgvHandled =>
       /\ Len(metric_queue) = Len(MetricInstructions)
                                + Len(SelectSeq(MetricInstructions, IsRaw))
       /\ \A k \in 1..Len(MetricInstructions) :
            LET ins == MetricInstructions[k]
                first == metric_queue[PlaceOf(k)]
            IN /\ first.fn = FormatterOf(ins.opt)
               /\ first.fn \in GateFormatters => GateOf(first) = ins.arg
               /\ IsRaw(ins) =>
                    /\ first.args[2] = "_input_circuit"
                    /\ metric_queue[PlaceOf(k) + 1].fn = "printMetricRaw"
                    /\ metric_queue[PlaceOf(k) + 1].args[2] = "_compare_circuit"

\* handle_argv read --metricRaw and then another metric instruction.
C7_Witness ==
    /\ ArgvHandled
    /\ Len(MetricInstructions) = 2
    /\ IsRaw(MetricInstructions[1])
    /\ ~IsRaw(MetricInstructions[2])
    /\ Len(metric_queue) = 3

\* An option of the command line that getopt was not told of.
Unrecognized(a) == a.opt \notin GetoptOptions /\ a.opt \notin Words

\* C8: with an unrecognized option on the command line handle_argv reports no
\* error and returns the queue, and main goes on: nothing is raised.
C8_UnrecognizedIgnored ==
    (\E i \in 1..Len(argv) : Unrecognized(argv[i]))
    => /\ exc # "TypeError"
       /\ \A k \in 1..Len(stdout) : stdout[k] # <<"Error reading in getopt arguments.">>

Range(f) == {f[i] : i \in DOMAIN f}

\* A name that asks for a backend: neither None nor "".
Requested(name) == name # None /\ name # ""

\* The names a backend may be asked for by.
BackendNames == {None, "", "sim_a", "sim_b", "sim_x", "SIM_A", "statevector"}

\* C9: no_valid_backend_check is True exactly when each of the two names that
\* asks for a backend is in the catalog as it is written: for the two names
\* main checks, and for every pair of names on the catalog main has fetched.
C9_BackendCheckExact ==
    /\ backend_check # "not run" =>
         ( backend_check = "passed"
           <=> \A b \in {cfg.backend_str_compare, cfg.backend_str_input} :
                 Requested(b) => b \in Range(backend_list) )
    /\ pc = "check" =>
         \A b1, b2 \in BackendNames :
            no_valid_backend_check(backend_list, b1, b2)
              <=> /\ Requested(b1) => b1 \in Range(backend_list)
                  /\ Requested(b2) => b2 \in Range(backend_list)

\* The check passed for an input backend of the catalog and no compare backend.
C9_Witness ==
    /\ backend_check = "passed"
    /\ cfg.backend_str_input = "sim_a"
    /\ cfg.backend_str_compare = ""
    /\ catalog.ibmq = <<"sim_a", "sim_b">>

\* A backend is asked for by a name that is not in the catalog.
BackendAbsent ==
    \E b \in {cfg.backend_str_compare, cfg.backend_str_input} :
       Requested(b) /\ b \notin Range(backend_list)

RunEntered == pc \in {"run", "output"} \/ log # << >> \/ RunReturned

\* A report was printed, or written to the output file.
ReportOut ==
    \/ outfile.written
    \/ \E k \in 1..Len(stdout) : stdout[k] # << >> /\ stdout[k][1] = "Test Files: "

\* handle_argv has returned to main.
AfterArgv == pc \notin {"start", "getopt", "opts"} /\ exc # "TypeError"

\* C11: once handle_argv has returned, if the input file, the input backend or
\* the API key is "", run_metrics is never called, no request is taken off
\* the queue and no report is written or printed; and whenever run_metrics
\* has been called the three are not "" and the backend check has passed.
C11_EarlyExit ==
    /\ (AfterArgv /\ (cfg.input_file = "" \/ cfg.backend_str_input = "" \/ cfg.api_key = ""))
       => /\ ~RunEntered
          /\ pc \in {"ibm", "done"}
          /\ metric_queue = enqueued
          /\ ~ReportOut
    /\ RunEntered
       => /\ cfg.input_file # "" /\ cfg.backend_str_input # "" /\ cfg.api_key # ""
          /\ backend_check = "passed"

\* main has returned with a request still on the queue, the API key and the
\* input file set and no input backend.
C11_Witness ==
    /\ pc = "done"
    /\ cfg.api_key # ""
    /\ cfg.input_file # ""
    /\ cfg.backend_str_input = ""
    /\ metric_queue # << >>
    /\ backend_check = "not run"

\* C12 as stated: a write to a Reference while a request waits on the queue
\* leaves what the request evaluates to as it was when it was put.
C12_FrozenAtEnqueue ==
    [][ \A i \in 1..Len(metric_queue) : \A gc \in CountsOutcomes :
          InvokeOn(refs', metric_queue[i], gc) = InvokeOn(refs, metric_queue[i], gc) ]_vars

\* s is the first Len(s) elements of t.
IsPrefix(s, t) == Len(s) <= Len(t) /\ s = SubSeq(t, 1, Len(s))

\* C12: a request on the queue is never altered (the queue only grows at its
\* end and shrinks at its front, and a write to a Reference leaves it alone),
\* and the request is evaluated on what its References hold when it is
\* drained, which is what main bound after it was put.
C12_BoundByReference ==
    [][ /\ IsPrefix(metric_queue, metric_queue') \/ metric_queue' = Tail(metric_queue)
        /\ refs' # refs => metric_queue' = metric_queue
        /\ Len(log') = Len(log) + 1
           => LET last == log'[Len(log')]
              IN /\ metric_queue # << >>
                 /\ last.req = Head(metric_queue)
                 /\ \E gc \in CountsOutcomes :
                      /\ last.text = InvokeOn(refs, Head(metric_queue), gc).text
                      /\ last.exc = InvokeOn(refs, Head(metric_queue), gc).exc ]_vars

\* A request was drained and returned a block that it would not have returned
\* on what the References held when it was put.
C12_Witness ==
    /\ log # << >>
    /\ log[1].exc = "none"
    /\ log[1].text # << >>
    /\ \A gc \in CountsOutcomes :
         InvokeOn(InitialRefs, log[1].req, gc).text # log[1].text

\* Where the blocks of a text start.
MetricStarts(text) == {i \in 1..Len(text) : text[i] = "\nMetric:\t"}

\* The block that starts at i: up to the next block, or to the end.
BlockAt(text, i) ==
    LET later == {j \in MetricStarts(text) : j > i}
        last == IF later = {} THEN Len(text)
                ELSE (CHOOSE j \in later : \A k \in later : j <= k) - 1
    IN SubSeq(text, i, last)

\* The blocks of a text, in order.
Blocks(text) ==
    [k \in 1..Cardinality(MetricStarts(text)) |->
        BlockAt(text, CHOOSE i \in MetricStarts(text) :
                        Cardinality({j \in MetricStarts(text) : j <= i}) = k)]

\* Where a block's field label stands.
FieldIndex(block, label) == CHOOSE i \in 1..Len(block) : block[i] = label

GateField(block) ==
    SubSeq(block, FieldIndex(block, "\nGate:\t") + 1,
           FieldIndex(block, "\nResult Note:\t") - 1)

NoteField(block) ==
    SubSeq(block, FieldIndex(block, "\nResult Note:\t") + 1,
           FieldIndex(block, "\nResult:\t") - 1)

ResultField(block) == SubSeq(block, FieldIndex(block, "\nResult:\t") + 1, Len(block) - 1)

\* The requests of the display metrics, the gate of CountGate being valid.
IsDisplay(req) ==
    \/ req.fn = "printMetricCountGate" /\ GateOf(req) \in valid_gate_strings
    \/ req.fn = "printMetricCircuitDepth"

\* What a display metric shows for one circuit.
DisplayValue(req, circuit) ==
    IF req.fn = "printMetricCountGate" THEN CountOps(circuit.ops, GateOf(req))
    ELSE circuit.depth[None]

\* The block is one of a display metric for the circuit the Reference holds:
\* its note starts with the circuit's name and its result is the circuit's.
BlockFor(block, req, ref) ==
    /\ NoteField(block) # << >>
    /\ NoteField(block)[1] = ref.name
    /\ ResultField(block) = <<ToString(DisplayValue(req, ref.val))>>

\* C13: a CountGate (valid gate) or CircuitDepth request returns one block, for
\* the input circuit, when the compare circuit Reference holds None, and else
\* two blocks and nothing more, the input circuit's and then the compare
\* circuit's, each with its own circuit's name and result.
C13_DisplayBlocks ==
    \A i \in 1..Len(log) :
       IsDisplay(log[i].req)
       => LET text == log[i].text
              blocks == Blocks(text)
          IN /\ log[i].exc = "none"
             /\ Len(blocks) = (IF CompareUnbound THEN 1 ELSE 2)
             /\ 1 \in MetricStarts(text)
             /\ BlockFor(blocks[1], log[i].req, refs["_input_circuit"])
             /\ ~CompareUnbound
                => /\ text = blocks[1] \o blocks[2]
                   /\ BlockFor(blocks[2], log[i].req, refs["_compare_circuit"])

\* A CountGate request returned two blocks whose names and results differ, and
\* a CircuitDepth request two blocks as well.
C13_Witness ==
    /\ Len(log) = 2
    /\ log[1].req.fn = "printMetricCountGate"
    /\ log[2].req.fn = "printMetricCircuitDepth"
    /\ IsDisplay(log[1].req)
    /\ ~CompareUnbound
    /\ Len(Blocks(log[1].text)) = 2
    /\ Len(Blocks(log[2].text)) = 2
    /\ ResultField(Blocks(log[1].text)[1]) # ResultField(Blocks(log[1].text)[2])
    /\ NoteField(Blocks(log[1].text)[1]) # NoteField(Blocks(log[1].text)[2])

\* The call is one of printMetricRaw for the compare side.
RawCompareSide(entry) ==
    entry.req.fn = "printMetricRaw" /\ entry.req.args[2] = "_compare_circuit"

NotRawCompareSide(entry) == ~RawCompareSide(entry)

\* C14: printMetricRaw on a circuit Reference or a container Reference that
\* holds None returns "" (no error block), raises nothing and runs nothing on
\* the backend; so with no compare file the report's results are the blocks
\* of the other calls, the compare side of --metricRaw adding nothing.
C14_RawNoneIsEmpty ==
    /\ \A i \in 1..Len(log) :
         (/\ log[i].req.fn = "printMetricRaw"
          /\ \/ refs[log[i].req.args[1]].val.isNone
             \/ refs[log[i].req.args[2]].val.isNone)
         => /\ log[i].text = << >>
            /\ log[i].exc = "none"
            /\ log[i].calls = << >>
            /\ log[i].get_counts = "not called"
    /\ pc = "run"
       => \A container \in {refs["_quantum_container_input"], Reference(NoneContainer, "")} :
            \A circuit \in {refs["_input_circuit"], Reference(NoneCircuit, "")} :
              \A gc \in CountsOutcomes :
                 (container.val.isNone \/ circuit.val.isNone)
                 => printMetricRaw(container, circuit, refs["_backend_input"], gc)
                      = [text |-> << >>, calls |-> << >>, exc |-> "none"]
    /\ (RunReturned /\ CompareUnbound)
       => results = ConcatTexts(SelectSeq(log, NotRawCompareSide))

\* A --metricRaw run with no compare file has returned from run_metrics: the
\* input side gave its block, the compare side nothing.
C14_Witness ==
    /\ pc = "output"
    /\ CompareUnbound
    /\ Len(log) = 2
    /\ log[1].req.fn = "printMetricRaw" /\ ~RawCompareSide(log[1])
    /\ RawCompareSide(log[2])
    /\ log[1].text # << >>
    /\ log[2].text = << >>
    /\ results = log[1].text

\* C15: when get_counts() of the outcome fails in a printMetricRaw call on a
\* bound circuit and container, the call raises nothing and returns the Raw
\* Results block of the circuit, whose Counts field is the string "None".
C15_CountsFailureCaught ==
    \A i \in 1..Len(log) :
       (log[i].req.fn = "printMetricRaw" /\ log[i].get_counts = "QiskitError")
       => LET text == log[i].text
              n == Len(text)
          IN /\ log[i].exc = "none"
             /\ n >= 6
             /\ SubSeq(text, 1, 3)
                  = <<"\n", refs[log[i].req.args[2]].name, " Raw Results\n">>
             /\ SubSeq(text, n - 2, n) = <<"\nCounts:\n", "None", "\n">>
             /\ \A k \in 1..(n - 3) : text[k] # "\nCounts:\n"

\* run_metrics returned after a printMetricRaw call in which get_counts()
\* failed.
C15_Witness ==
    /\ pc = "output"
    /\ \E i \in 1..Len(log) :
         /\ log[i].get_counts = "QiskitError"
         /\ ~refs[log[i].req.args[1]].val.isNone
         /\ ~refs[log[i].req.args[2]].val.isNone
         /\ log[i].text # << >>

\* C16: once run_metrics has returned, main's next step delivers the report
\* (the header, then the results) and ends the run with no exception: into
\* the output file when one is set and the write succeeds, the console left
\* alone; onto the console when none is set; and when the write fails, onto
\* the console after the diagnostic line, the file left unwritten.
C16_ReportDelivered ==
    [][ pc = "output"
        => LET report == <<"Test Files: ">> \o Str(cfg.input_file) \o <<" ">>
                           \o Str(cfg.compare_file) \o <<"\n", "Device: ">>
                           \o Str(cfg.backend_str_input) \o <<"\n">> \o results
               diagnostic == <<"Error opening specified output file. Printing to console...">>
           IN /\ pc' = "done"
              /\ exc' = "none"
              /\ IF cfg.output_file = ""
                 THEN /\ stdout' = Append(stdout, report)
                      /\ outfile' = outfile
                 ELSE \/ /\ outfile' = [written |-> TRUE, content |-> report]
                         /\ stdout' = stdout
                      \/ /\ outfile' = outfile
                         /\ stdout' = stdout \o <<diagnostic, report>> ]_vars

\* The write to the output file failed: the run ended with the diagnostic and
\* then the report, with a metric block in it, on the console.
C16_Witness ==
    /\ pc = "done"
    /\ RunReturned
    /\ cfg.output_file # ""
    /\ ~outfile.written
    /\ results # << >>
    /\ Len(stdout) >= 2
    /\ stdout[Len(stdout) - 1]
         = <<"Error opening specified output file. Printing to console...">>
    /\ stdout[Len(stdout)] = Report

(***************************************************************************)
(* The depth formatters called with basis gate sets of the caller's choice. *)
(* run_metrics never passes any, so these calls are made on bound           *)
(* References directly, one after the other; a call that raises ends them.  *)
(***************************************************************************)
MaxCalls == 2

DepthFormatters == {"printMetricDiffDepth", "printMetricCircuitDepth", "printMetricRatioDepth"}

\* The References after main's circuit loading, for some input file and some
\* compare file or none.
InitDepth ==
    /\ argv = << >>
    /\ user_pref \in {u \in UserPrefs : u.API_KEY = "key" /\ u.DEFAULT_OUTPUT_FILE = ""
                                         /\ u.DEFAULT_BACKEND_INPUT = "sim_a"
                                         /\ u.DEFAULT_BACKEND_COMPARE = "sim_b"
                                         /\ u.DEFAULT_INPUT_FILE = "a.qasm"
                                         /\ u.DEFAULT_COMPARE_FILE = "b.qasm"}
    /\ pc = "run"
    /\ \E input \in CircuitFiles, compare \in CircuitFiles \cup {""} :
         /\ cfg = [api_key |-> None, input_file |-> input, compare_file |-> compare,
                   output_file |-> None, backend_str_input |-> None,
                   backend_str_compare |-> None, show_backends |-> FALSE]
         /\ refs = [InitialRefs EXCEPT
                      !["_input_circuit"] = Reference(LoadCircuit(input), input),
                      !["_compare_circuit"] =
                          IF compare # "" THEN Reference(LoadCircuit(compare), compare)
                          ELSE Reference(NoneCircuit, "")]
    /\ opts = << >>
    /\ metric_queue = << >>
    /\ enqueued = << >>
    /\ compare_exists = FALSE
    /\ cont_metrics = TRUE
    /\ catalog = [ibmq |-> << >>, aer |-> << >>, legacy |-> << >>]
    /\ backend_list = << >>
    /\ backend_check = "not run"
    /\ out = << >>
    /\ log = << >>
    /\ results = << >>
    /\ stdout = << >>
    /\ outfile = [written |-> FALSE, content |-> << >>]
    /\ exc = "none"

\* One call fn(_input_circuit, _compare_circuit, basis_gates_a, basis_gates_b).
CallDepthFormatter ==
    /\ pc = "run"
    /\ Len(log) < MaxCalls
    /\ \E fn \in DepthFormatters, basis_gates_a \in BasisSets, basis_gates_b \in BasisSets :
         LET circuit_a == refs["_input_circuit"]
             circuit_b == refs["_compare_circuit"]
             r == CASE fn = "printMetricDiffDepth" ->
                         printMetricDiffDepth(circuit_a, circuit_b,
                                              basis_gates_a, basis_gates_b)
                    [] fn = "printMetricCircuitDepth" ->
                         printMetricCircuitDepth(circuit_a, circuit_b,
                                                 basis_gates_a, basis_gates_b)
                    [] OTHER ->
                         printMetricRatioDepth(circuit_a, circuit_b,
                                               basis_gates_a, basis_gates_b)
         IN /\ log' = Append(log, [req |-> Request(fn, <<"_input_circuit", "_compare_circuit",
                                                         basis_gates_a, basis_gates_b>>),
                                   text |-> r.text, calls |-> r.calls, exc |-> r.exc,
                                   get_counts |-> "not called"])
            /\ IF r.exc = "none"
               THEN /\ out' = Accumulate(out, r.text)
                    /\ UNCHANGED <<pc, exc>>
               ELSE /\ exc' = r.exc
                    /\ pc' = "crashed"
                    /\ UNCHANGED out
    /\ UNCHANGED <<argv, user_pref, cfg, refs, opts, metric_queue, enqueued,
                   compare_exists, cont_metrics, catalog, backend_list, backend_check,
                   results, stdout, outfile>>

NextDepth == CallDepthFormatter

SpecDepth == InitDepth /\ [][NextDepth]_vars

\* The depth of the circuit a Reference holds, in a basis.
DepthOf(ref, basis) == ref.val.depth[basis]

\* C17: the Result of a DiffDepth block, both circuits bound and whatever the
\* basis gate sets, is the compare circuit's depth in basis_gates_b minus the
\* input circuit's depth in basis_gates_a, the two depths its Result Note
\* shows.
C17_DiffDepthResult ==
    \A i \in 1..Len(log) :
       (log[i].req.fn = "printMetricDiffDepth" /\ log[i].exc = "none")
       => LET basis_gates_a == log[i].req.args[3]
              basis_gates_b == log[i].req.args[4]
              compDepth == DepthOf(refs["_compare_circuit"], basis_gates_b)
              impDepth == DepthOf(refs["_input_circuit"], basis_gates_a)
              block == Blocks(log[i].text)[1]
          IN /\ ResultField(block) = <<ToString(compDepth - impDepth)>>
             /\ NoteField(block)[6] = ToString(compDepth)
             /\ NoteField(block)[Len(NoteField(block))] = ToString(impDepth)

\* C18: every block a depth metric returns (CircuitDepth's input block and
\* compare block, DiffDepth's, RatioDepth's) has an empty Gate field, and with
\* no basis gate set passed its Result Note names "Default Gates".
C18_DepthBlocksNoGate ==
    \A i \in 1..Len(log) :
       (log[i].req.fn \in DepthFormatters /\ log[i].exc = "none")
       => \A k \in 1..Len(Blocks(log[i].text)) :
            LET block == Blocks(log[i].text)[k]
            IN /\ GateField(block) = << >>
               /\ \E j \in 1..Len(NoteField(block)) : NoteField(block)[j] = "Default Gates"

=============================================================================
